---------------------------- MODULE Spec2Model ----------------------------
(***************************************************************************)
(* Model of the vertical2api gateway: the conversation-affinity cache      *)
(* (src/main.py), the request orchestrator chat_completions, the stream    *)
(* adapter openai_stream_adapter, the non-stream aggregator and the        *)
(* upstream client's line framing (src/vertical_client.py).                *)
(*                                                                         *)
(* Text is a sequence of tokens (a token is a short string), so that       *)
(* "".join and "\n".join are different operators.  A fingerprint keeps     *)
(* the role and an injective image of the text (sha256 collisions are      *)
(* not modelled).                                                          *)
(***************************************************************************)
EXTENDS Integers, Sequences, FiniteSets, TLC

\* ------------------------------------------------------------------ bounds
\* requests accepted in one run of Spec (cache under interleaved requests)
MaxRequests == 4
\* requests accepted in one run of SpecMatch (the matcher and the decision)
MatchRequests == 3
\* requests accepted in one run of SpecStream (the adapter and the aggregator)
StreamRequests == 2
\* capacity of the conversation cache (100 in the source, scaled down)
CONVERSATION_CACHE_MAX_SIZE == 2

\* chunks a body is delivered in, at most
MaxChunks == 3
\* credentials in the pool, at most
MaxTokens == 3

\* the request tasks of the event loop: one request in flight and one acting
\* on the cache meanwhile give every interleaving of two requests
Tasks == {1, 2}

\* Python's None where the code holds an id
None == 0

\* ------------------------------------------------------------ text helpers
NL == "\n"

RECURSIVE Flatten(_)
\* "".join(parts)
Flatten(parts) ==
  IF parts = << >> THEN << >> ELSE Head(parts) \o Flatten(Tail(parts))

RECURSIVE JoinNL(_)
\* "\n".join(parts)
JoinNL(parts) ==
  IF parts = << >> THEN << >>
  ELSE IF Len(parts) = 1 THEN Head(parts)
  ELSE Head(parts) \o <<NL>> \o JoinNL(Tail(parts))

Last(s) == s[Len(s)]
Front(s) == SubSeq(s, 1, Len(s) - 1)

\* ------------------------------------------------------------- fingerprint
ChatMessage(role, content) == [role |-> role, content |-> content]

generate_message_fingerprint(role, content) == <<role, <<"sha16", content>> >>

RECURSIVE Fingerprints(_)
\* [generate_message_fingerprint(m.role, m.content) for m in msgs]
Fingerprints(msgs) ==
  IF msgs = << >> THEN << >>
  ELSE <<generate_message_fingerprint(Head(msgs).role, Head(msgs).content)>>
       \o Fingerprints(Tail(msgs))

\* ----------------------------------------------------------- model catalog
models_data ==
  [ id \in {"m-thinking", "n"} |->
      IF id = "m-thinking"
      THEN [vertical_model_id |-> "m", vertical_model_url |-> "u1",
            output_reasoning_flag |-> TRUE]
      ELSE [vertical_model_id |-> "n", vertical_model_url |-> "u2",
            output_reasoning_flag |-> FALSE] ]

RequestedModels == {"m-thinking", "n", "unknown"}

\* the None of get_model_item
NoModel ==
  [vertical_model_id |-> "", vertical_model_url |-> "",
   output_reasoning_flag |-> FALSE]

get_model_item(model_id) ==
  IF model_id \in DOMAIN models_data THEN models_data[model_id] ELSE NoModel


\* -------------------------------------------------------- request content
Sys(t)  == ChatMessage("system", <<t>>)
User(t) == ChatMessage("user", <<t>>)
Asst(c) == ChatMessage("assistant", c)

Request(model, msgs) == [model |-> model, messages |-> msgs]

\* the opening turn [system, user]
Opening == Request("m-thinking", <<Sys("s"), User("a")>>)

\* the opening history followed by a new user message
FollowUp == Request("m-thinking", <<Sys("s"), User("a"), User("b")>>)

\* the opening history, the assistant's reply "x", and a new user message
Continuation ==
  Request("m-thinking", <<Sys("s"), User("a"), Asst(<<"x">>), User("b")>>)

\* the opening history followed by a second system message
OtherSystem == Request("m-thinking", <<Sys("s"), User("a"), Sys("s2")>>)

\* the follow-up sent to another endpoint
OtherEndpoint == Request("n", <<Sys("s"), User("a"), User("b")>>)

\* a history without a user message (400) and an unknown model (404)
NoUser == Request("m-thinking", <<Sys("s")>>)
UnknownModel == Request("unknown", <<Sys("s"), User("a")>>)

\* the requests of Spec, of SpecMatch and of SpecStream
CacheClients == {Opening, FollowUp, OtherEndpoint}
MatchClients ==
  {Opening, FollowUp, Continuation, OtherSystem, OtherEndpoint, NoUser,
   UnknownModel}
StreamClients == {Opening, FollowUp}

RECURSIVE SystemPromptRaw(_)
\* current_system_prompt_str += msg.content + "\n" for the system messages
SystemPromptRaw(msgs) ==
  IF msgs = << >> THEN << >>
  ELSE (IF Head(msgs).role = "system" THEN Head(msgs).content \o <<NL>> ELSE << >>)
       \o SystemPromptRaw(Tail(msgs))

RECURSIVE Strip(_)
\* str.strip() on a text whose only whitespace tokens are line ends
Strip(t) ==
  IF t = << >> THEN << >>
  ELSE IF Head(t) = NL THEN Strip(Tail(t))
  ELSE IF Last(t) = NL THEN Strip(Front(t))
  ELSE t

current_system_prompt_str(msgs) == Strip(SystemPromptRaw(msgs))

\* hash(current_system_prompt_str): injective on the texts of the model
system_prompt_hash(msgs) == <<"hash", current_system_prompt_str(msgs)>>

RECURSIVE latest_user_message_content(_)
\* content of the last message with role "user" ("" when there is none)
latest_user_message_content(msgs) ==
  IF msgs = << >> THEN << >>
  ELSE IF Last(msgs).role = "user" THEN Last(msgs).content
  ELSE latest_user_message_content(Front(msgs))

\* fingerprints of request.messages[:-1]
prefix_message_fingerprints(msgs) == Fingerprints(Front(msgs))

RECURSIVE history_parts(_)
\* "User: ..." / "Assistant: ..." for the user and assistant messages
history_parts(msgs) ==
  IF msgs = << >> THEN << >>
  ELSE (IF Head(msgs).role = "user" THEN << <<"User: ">> \o Head(msgs).content >>
        ELSE IF Head(msgs).role = "assistant"
             THEN << <<"Assistant: ">> \o Head(msgs).content >>
        ELSE << >>)
       \o history_parts(Tail(msgs))

\* a new conversation that sends the newest user message only
NewConversationText_latest_only(msgs) == latest_user_message_content(msgs)

\* message_to_send_to_vertical of a new conversation
NewConversationText(msgs) ==
  IF JoinNL(history_parts(msgs)) = << >>
  THEN latest_user_message_content(msgs)
  ELSE JoinNL(history_parts(msgs))

\* ------------------------------------------------------------------- cache
\* conversation_cache is an OrderedDict: a sequence of entries, oldest first
CacheIds(c) == {c[i].id : i \in DOMAIN c}

\* a matcher that does not compare the system-prompt signature
Compatible_no_signature(rec, url, sph, prefix) ==
  /\ rec.vertical_model_url = url
  /\ Front(rec.message_fingerprints) = prefix

Compatible(rec, url, sph, prefix) ==
  /\ rec.vertical_model_url = url
  /\ rec.system_prompt_hash = sph
  /\ Front(rec.message_fingerprints) = prefix

RECURSIVE ScanFrom(_, _, _, _, _)
\* for conv_id, cached_data in reversed(list(conversation_cache.items())):
\* position of the first compatible entry met from position i downwards, or 0
ScanFrom(c, i, url, sph, prefix) ==
  IF i = 0 THEN 0
  ELSE IF Compatible(c[i], url, sph, prefix) THEN i
  ELSE ScanFrom(c, i - 1, url, sph, prefix)

FindMatch(c, url, sph, prefix) == ScanFrom(c, Len(c), url, sph, prefix)

\* a matcher that leaves the matched entry where it is
move_to_end_no_touch(c, i) == c

\* conversation_cache.move_to_end(conv_id)
move_to_end(c, i) ==
  SubSeq(c, 1, i - 1) \o SubSeq(c, i + 1, Len(c)) \o <<c[i]>>

\* a put that forgets the LRU eviction
EvictIfOver_never(c) == c

\* if len(conversation_cache) > MAX: conversation_cache.popitem(last=False)
EvictIfOver(c) ==
  IF Len(c) > CONVERSATION_CACHE_MAX_SIZE THEN Tail(c) ELSE c

RECURSIVE TurnsOnly(_)
\* the user and assistant messages of a history
TurnsOnly(msgs) ==
  IF msgs = << >> THEN << >>
  ELSE (IF Head(msgs).role = "system" THEN << >> ELSE <<Head(msgs)>>)
       \o TurnsOnly(Tail(msgs))

\* an insertion that fingerprints the user and assistant turns only
InsertNew_turns_only(c, id, chat, url, sph, msgs, reply, now) ==
  EvictIfOver(c \o << [id |-> id,
                      vertical_chat_id |-> chat,
                      vertical_model_url |-> url,
                      system_prompt_hash |-> sph,
                      message_fingerprints |->
                        Fingerprints(TurnsOnly(msgs))
                        \o <<generate_message_fingerprint("assistant", reply)>>,
                      last_seen |-> now] >>)

\* the is_new_cached_conv branch of _update_conversation_cache
InsertNew(c, id, chat, url, sph, msgs, reply, now) ==
  EvictIfOver(c \o << [id |-> id,
                      vertical_chat_id |-> chat,
                      vertical_model_url |-> url,
                      system_prompt_hash |-> sph,
                      message_fingerprints |->
                        Fingerprints(msgs)
                        \o <<generate_message_fingerprint("assistant", reply)>>,
                      last_seen |-> now] >>)

\* an update that puts the reply's fingerprint before the user fingerprint
ExtendFingerprints_reply_first(fps, msgs, reply) ==
  LET last_user_fingerprint ==
        generate_message_fingerprint(Last(msgs).role, Last(msgs).content)
      withReply == Append(fps, generate_message_fingerprint("assistant", reply))
  IN  Append(withReply, last_user_fingerprint)

\* fingerprints of a matched entry after the turn
ExtendFingerprints(fps, msgs, reply) ==
  LET last_user_fingerprint ==
        generate_message_fingerprint(Last(msgs).role, Last(msgs).content)
      withUser == IF fps = << >> \/ Last(fps) # last_user_fingerprint
                  THEN Append(fps, last_user_fingerprint) ELSE fps
  IN  Append(withUser, generate_message_fingerprint("assistant", reply))

\* an update that refreshes last_seen of every record
UpdateMatched_touches_all(c, id, msgs, reply, now) ==
  [i \in DOMAIN c |->
     IF c[i].id = id
     THEN [c[i] EXCEPT !.message_fingerprints = ExtendFingerprints(@, msgs, reply),
                       !.last_seen = now]
     ELSE [c[i] EXCEPT !.last_seen = now]]

\* an update that stores the extended record under a new key and keeps the
\* matched one
UpdateMatched_as_new_record(c, id, msgs, reply, now) ==
  c \o SelectSeq([i \in DOMAIN c |->
                    [c[i] EXCEPT !.id = 0 - now,
                                 !.message_fingerprints =
                                   ExtendFingerprints(@, msgs, reply),
                                 !.last_seen = now]],
                 LAMBDA rec : \E i \in DOMAIN c :
                                /\ c[i].id = id
                                /\ rec.vertical_chat_id = c[i].vertical_chat_id)

\* an update that rewrites the record from the request's own messages, as
\* the new-conversation branch does: turns recorded meanwhile are lost
UpdateMatched_from_request(c, id, msgs, reply, now) ==
  [i \in DOMAIN c |->
     IF c[i].id = id
     THEN [c[i] EXCEPT !.message_fingerprints =
                         Append(Fingerprints(msgs),
                                generate_message_fingerprint("assistant", reply)),
                       !.last_seen = now]
     ELSE c[i]]

\* the matched_conv_id_for_cache_update branch (the key is present)
UpdateMatched(c, id, msgs, reply, now) ==
  [i \in DOMAIN c |->
     IF c[i].id = id
     THEN [c[i] EXCEPT !.message_fingerprints = ExtendFingerprints(@, msgs, reply),
                       !.last_seen = now]
     ELSE c[i]]


\* ---------------------------------------------------------- upstream body
\* a logical line of the upstream body: its leading tag, whether the rest is
\* a quoted payload, and the payload
RawLine(tag, quoted, seg) == [tag |-> tag, quoted |-> quoted, seg |-> seg]

Content(seg)   == RawLine("0:", TRUE, seg)
Reasoning(seg) == RawLine("g:", TRUE, seg)
Control(tag)   == RawLine(tag, FALSE, <<"{}">>)

\* what the client yields for a d: line and at the end of the body
DoneYield == RawLine("d:", FALSE, <<"{\"type\": \"done\"}">>)

\* what the client yields for a failed POST or a transport exception
ErrorYield(msg) == RawLine("error:", FALSE, <<msg>>)

\* the answer to the POST: status, the lines of the body, and whether the
\* transport raises once they are read
Body(status, lines, raises) == [status |-> status, lines |-> lines, raises |-> raises]

\* the plain answer: one content line and the done line
PlainBody == Body("200", <<Content(<<"x">>), Control("d:")>>, FALSE)

\* other answers: no line at all; reasoning before content; content before
\* reasoning and no done line; informational lines, an unquoted content
\* line, two content lines (one with an escape) and a line after the done
\* line; an exception after one content line
RichBodies ==
  { Body("200", << >>, FALSE),
    Body("200", <<Reasoning(<<"t">>), Content(<<"x">>), Control("d:")>>, FALSE),
    Body("200", <<Content(<<"x">>), Reasoning(<<"t">>)>>, FALSE),
    Body("200", <<Control("f:"), RawLine("0:", FALSE, <<"x">>), Content(<<"x">>),
                  Control("8:"), Content(<<"y", "\\n">>), Control("e:"),
                  Control("d:"), Content(<<"x">>)>>, FALSE),
    Body("200", <<Content(<<"x">>)>>, TRUE) }

\* the answer of a failed POST
FailedBody == Body("500", << >>, FALSE)

\* the answers of Spec and SpecMatch, and those of SpecStream
PlainBodies == {PlainBody, FailedBody}

\* the answers of SpecPaths: also reasoning before content, and an exception
\* after one content line
PathBodies ==
  PlainBodies \cup
  { Body("200", <<Reasoning(<<"t">>), Content(<<"x">>), Control("d:")>>, FALSE),
    Body("200", <<Content(<<"x">>)>>, TRUE) }
AllBodies == {PlainBody, FailedBody} \cup RichBodies

RECURSIVE ClientLines(_, _, _)
\* send_message_stream after the status check: the lines it yields for the
\* lines of the body, then the done line (or the error line of the except)
ClientLines(lines, raises, output_reasoning) ==
  IF lines = << >>
  THEN IF raises THEN <<ErrorYield("send failed: exception")>> ELSE <<DoneYield>>
  ELSE LET line == Head(lines)
           rest == ClientLines(Tail(lines), raises, output_reasoning)
       IN  IF line.tag = "f:" THEN rest
           ELSE IF line.tag = "0:" THEN <<line>> \o rest
           ELSE IF line.tag = "g:" /\ output_reasoning THEN <<line>> \o rest
           ELSE IF line.tag = "e:" THEN rest
           ELSE IF line.tag = "d:" THEN <<DoneYield>>
           ELSE rest

\* send_message_stream: the lines the generator yields
send_message_stream(body, output_reasoning) ==
  IF body.status # "200"
  THEN <<ErrorYield("API request failed: status - body")>>
  ELSE ClientLines(body.lines, body.raises, output_reasoning)

\* one escaped token of a quoted payload, decoded as json.loads decodes it
Unescape(tok) ==
  IF tok = "\\n" THEN NL
  ELSE IF tok = "\\t" THEN "\t"
  ELSE IF tok = "\\\"" THEN "\""
  ELSE tok

\* parse_json_string_content(line, 3, -1) on the quoted segment of a line
parse_json_string_content(segment) ==
  [i \in DOMAIN segment |-> Unescape(segment[i])]

\* json.loads(line[2:]).get("type") is "done" or "DONE"
IsDoneEvent(seg) ==
  seg \in { <<"{\"type\": \"done\"}">>, <<"{\"type\": \"DONE\"}">> }

\* ------------------------------------------------------------ output chunks
\* StreamResponse with one StreamChoice(delta, finish_reason)
Chunk(role, channel, text, finish) ==
  [role |-> role, channel |-> channel, text |-> text, finish |-> finish]

\* "data: [DONE]\n\n"
DONE == Chunk(FALSE, "[DONE]", << >>, "null")

\* delta = {}, finish_reason = "stop"
FinalChunk == Chunk(FALSE, "none", << >>, "stop")

\* delta = {"role": "assistant", "content": prefix + msg}, finish_reason = "stop"
\* (the prefixes stand for the source's non-ASCII literals)
ErrorChunk(prefix, msg) == Chunk(TRUE, "content", <<prefix>> \o msg, "stop")

\* the locals of openai_stream_adapter: what it has yielded, the reply parts,
\* first_chunk_sent, and where it stands ("loop", "update" after the break or
\* the end of the lines, "returned" after an error line)
AdapterStart ==
  [out |-> << >>, parts |-> << >>, first_chunk_sent |-> FALSE, at |-> "loop"]

\* an adapter that goes on to the cache update after an error line
AdapterStep_error_falls_through(a, line, reasoning_requested) ==
  IF line.tag = "error:"
  THEN [a EXCEPT !.out = @ \o <<ErrorChunk("error-prefix: ", line.seg), DONE>>,
                 !.at = "update"]
  ELSE IF line.tag = "0:" /\ line.quoted
  THEN [a EXCEPT !.out = Append(@, Chunk(~a.first_chunk_sent, "content",
                                         parse_json_string_content(line.seg),
                                         "null")),
                 !.parts = Append(@, parse_json_string_content(line.seg)),
                 !.first_chunk_sent = TRUE]
  ELSE IF line.tag = "d:" /\ IsDoneEvent(line.seg)
  THEN [a EXCEPT !.out = Append(@, FinalChunk), !.at = "update"]
  ELSE a

\* an adapter that never records that the first chunk was sent
AdapterStep_role_on_every_chunk(a, line, reasoning_requested) ==
  IF line.tag = "error:"
  THEN [a EXCEPT !.out = @ \o <<ErrorChunk("error-prefix: ", line.seg), DONE>>,
                 !.at = "returned"]
  ELSE IF line.tag = "0:" /\ line.quoted
  THEN [a EXCEPT !.out = Append(@, Chunk(~a.first_chunk_sent, "content",
                                         parse_json_string_content(line.seg),
                                         "null")),
                 !.parts = Append(@, parse_json_string_content(line.seg))]
  ELSE IF reasoning_requested /\ line.tag = "g:" /\ line.quoted
  THEN [a EXCEPT !.out = Append(@, Chunk(~a.first_chunk_sent, "reasoning",
                                         parse_json_string_content(line.seg),
                                         "null")),
                 !.parts = Append(@, <<"[Thinking]: ">>
                                     \o parse_json_string_content(line.seg))]
  ELSE IF line.tag = "d:" /\ IsDoneEvent(line.seg)
  THEN [a EXCEPT !.out = Append(@, FinalChunk), !.at = "update"]
  ELSE a

\* one pass of the body of "async for line in api_stream_generator"
AdapterStep(a, line, reasoning_requested) ==
  IF line.tag = "error:"
  THEN [a EXCEPT !.out = @ \o <<ErrorChunk("error-prefix: ", line.seg), DONE>>,
                 !.at = "returned"]
  ELSE IF line.tag = "0:" /\ line.quoted
  THEN LET final_content == parse_json_string_content(line.seg) IN
       [a EXCEPT !.out = Append(@, Chunk(~a.first_chunk_sent, "content",
                                         final_content, "null")),
                 !.parts = Append(@, final_content),
                 !.first_chunk_sent = TRUE]
  ELSE IF reasoning_requested /\ line.tag = "g:" /\ line.quoted
  THEN LET thinking_content == parse_json_string_content(line.seg) IN
       [a EXCEPT !.out = Append(@, Chunk(~a.first_chunk_sent, "reasoning",
                                         thinking_content, "null")),
                 !.parts = Append(@, <<"[Thinking]: ">> \o thinking_content),
                 !.first_chunk_sent = TRUE]
  ELSE IF line.tag = "d:" /\ IsDoneEvent(line.seg)
  THEN [a EXCEPT !.out = Append(@, FinalChunk), !.at = "update"]
  ELSE a

RECURSIVE AdapterLoop(_, _, _)
\* the loop of openai_stream_adapter over the lines the client yields
AdapterLoop(a, lines, reasoning_requested) ==
  IF a.at # "loop" THEN a
  ELSE IF lines = << >> THEN [a EXCEPT !.at = "update"]
  ELSE AdapterLoop(AdapterStep(a, Head(lines), reasoning_requested),
                   Tail(lines), reasoning_requested)

RECURSIVE SelectChannel(_, _)
\* the delta texts of one channel, in order
SelectChannel(chunks, channel) ==
  IF chunks = << >> THEN << >>
  ELSE (IF Head(chunks).channel = channel THEN <<Head(chunks).text>> ELSE << >>)
       \o SelectChannel(Tail(chunks), channel)

\* reasoning parts, each behind "[Thinking]: "
Prefixed(parts) == [i \in DOMAIN parts |-> <<"[Thinking]: ">> \o parts[i]]

\* aggregate_stream_for_non_stream_response: the message content returned
aggregate_stream_for_non_stream_response(chunks) ==
  Flatten(Prefixed(SelectChannel(chunks, "reasoning"))
          \o SelectChannel(chunks, "content"))

\* ------------------------------------------------------------------- state
\* ------------------------------------------------- the framing of the body
\* Bytes are named by strings: an ASCII byte by its character, the two bytes
\* of U+00E9 by "C3" and "A9".  Characters likewise, U+00E9 being "e-acute".
RECURSIVE decode_ignore(_)
\* chunk.decode('utf-8', errors='ignore'): a lead byte without its
\* continuation byte and a continuation byte without its lead are dropped
decode_ignore(bs) ==
  IF bs = << >> THEN << >>
  ELSE IF Head(bs) = "C3"
  THEN IF Len(bs) >= 2 /\ bs[2] = "A9"
       THEN <<"e-acute">> \o decode_ignore(SubSeq(bs, 3, Len(bs)))
       ELSE decode_ignore(Tail(bs))
  ELSE IF Head(bs) = "A9" THEN decode_ignore(Tail(bs))
  ELSE <<Head(bs)>> \o decode_ignore(Tail(bs))

Whitespace == {" ", "\r"}

RECURSIVE StripLine(_)
\* line.strip()
StripLine(line) ==
  IF line = << >> THEN << >>
  ELSE IF Head(line) \in Whitespace THEN StripLine(Tail(line))
  ELSE IF Last(line) \in Whitespace THEN StripLine(Front(line))
  ELSE line

\* line.startswith(tag + ':')
StartsWith(line, tag) == Len(line) >= 2 /\ line[1] = tag /\ line[2] = ":"

\* the literal 'd:{"type": "done"}' the client yields
DoneLine == <<"d", ":", "{\"type\": \"done\"}">>

\* the literal error line of the except block
ErrorLine == <<"error:", "send failed: exception">>

\* the position of the first line end of a buffer that has one
FirstNL(buf) == CHOOSE i \in DOMAIN buf : buf[i] = NL /\ \A j \in 1..(i - 1) : buf[j] # NL

\* the locals of the generator before the first chunk
ClientStart == [buffer |-> << >>, yielded |-> << >>, returned |-> FALSE]

RECURSIVE DrainLines(_, _)
\* while '\n' in buffer: split off a line, strip it, classify it
DrainLines(st, output_reasoning) ==
  IF st.returned \/ \A i \in DOMAIN st.buffer : st.buffer[i] # NL
  THEN st
  ELSE LET i == FirstNL(st.buffer)
           line == StripLine(SubSeq(st.buffer, 1, i - 1))
           rest == [st EXCEPT !.buffer = SubSeq(st.buffer, i + 1, Len(st.buffer))]
       IN  IF line = << >> THEN DrainLines(rest, output_reasoning)
           ELSE IF StartsWith(line, "f") THEN DrainLines(rest, output_reasoning)
           ELSE IF StartsWith(line, "0")
           THEN DrainLines([rest EXCEPT !.yielded = Append(@, line)],
                           output_reasoning)
           ELSE IF StartsWith(line, "g") /\ output_reasoning
           THEN DrainLines([rest EXCEPT !.yielded = Append(@, line)],
                           output_reasoning)
           ELSE IF StartsWith(line, "e") THEN DrainLines(rest, output_reasoning)
           ELSE IF StartsWith(line, "d")
           THEN [rest EXCEPT !.yielded = Append(@, DoneLine), !.returned = TRUE]
           ELSE DrainLines(rest, output_reasoning)

\* one pass of "async for chunk in response.aiter_bytes()"
FeedChunk(st, chunk, output_reasoning) ==
  DrainLines([st EXCEPT !.buffer = @ \o decode_ignore(chunk)], output_reasoning)

\* the body ended without a d: line: the client yields the done line itself
EndOfBody(st) ==
  [st EXCEPT !.yielded = Append(@, DoneLine), !.returned = TRUE]

\* the lines yielded when the whole body arrives as one chunk
SingleChunk(bs, output_reasoning) ==
  LET st == FeedChunk(ClientStart, bs, output_reasoning)
  IN  IF st.returned THEN st.yielded ELSE EndOfBody(st).yielded

\* a body with a d: line, and lines after it
DoneStream ==
  <<"f", ":", NL,
    "0", ":", "C3", "A9", NL,
    "d", ":", NL,
    "0", ":", "x", NL>>

\* a body without a d: line: reasoning, padded content, skipped tags, an
\* empty line, an unknown tag and an unfinished last line
OpenStream ==
  <<"g", ":", "x", NL,
    " ", "0", ":", "C3", "A9", "\r", NL,
    "e", ":", NL, "8", ":", NL, NL, "z", NL,
    "0", ":", "x">>

ByteStreams == {DoneStream, OpenStream}

\* the chunks of bs cut after the positions cuts (in ascending order)
Split(bs, cuts) ==
  LET at(k) == IF k = 0 THEN 0 ELSE IF k > Len(cuts) THEN Len(bs) ELSE cuts[k]
      pieces == [k \in 1..(Len(cuts) + 1) |-> SubSeq(bs, at(k - 1) + 1, at(k))]
  IN  SelectSeq(pieces, LAMBDA piece : piece # << >>)

\* every way of delivering bs in at most MaxChunks chunks
Chunkings(bs) ==
  {Split(bs, cuts) : cuts \in {c \in [1..(MaxChunks - 1) -> 0..Len(bs)] :
                                 \A k \in 1..(MaxChunks - 2) : c[k] <= c[k + 1]}}

VARIABLES
  cache,       \* conversation_cache, oldest entry first
  clock,       \* time.time()
  VERTICAL_AUTH_TOKENS,        \* the credential pool loaded at startup
  current_vertical_token_index,
  pc,          \* where each request is
  req,         \* the request and the locals of chat_completions / the adapter
  out,         \* the items each request's SSE stream has yielded
  calls,       \* upstream calls made by each request
  snap,        \* cache when the request arrived (while no other request acted)
  alone,       \* no other request has changed the cache since this one arrived
  arrived,     \* number of requests accepted so far
  issued,      \* what the latest calls of get_next_vertical_auth_token returned
  session_credential,  \* per cache key, the credential its session was created with
  cache_lock,  \* the request holding cache_lock, or None
  token_rotation_lock,   \* the request holding token_rotation_lock, or None
  wire,        \* the chunks response.aiter_bytes() delivers
  fed,         \* how many of them send_message_stream has consumed
  buffer,      \* buffer of send_message_stream
  yielded,     \* the lines send_message_stream has yielded
  client_pc,   \* where send_message_stream is
  wants_reasoning   \* its output_reasoning argument

gateway_vars ==
  <<cache, clock, VERTICAL_AUTH_TOKENS, current_vertical_token_index, pc,
    req, out, calls, snap, alone, arrived, cache_lock, token_rotation_lock,
    issued, session_credential>>

locks == <<cache_lock, token_rotation_lock>>

history_vars == <<issued, session_credential>>

framing_vars == <<wire, fed, buffer, yielded, client_pc, wants_reasoning>>

vars == <<gateway_vars, framing_vars>>

NoRequest ==
  [serial |-> 0, messages |-> << >>, model |-> "", auth_token |-> "",
   url |-> "", reasoning |-> FALSE, matched |-> None, chat |-> None,
   is_new |-> FALSE, text |-> << >>, status |-> "", parts |-> << >>,
   prefix |-> << >>, lines |-> << >>]

NoCalls == [create |-> 0, send |-> 0]

\* the state after startup(), with one credential in vertical.txt
InitGateway ==
  /\ cache = << >>
  /\ clock = 1
  /\ VERTICAL_AUTH_TOKENS = <<"token-1">>
  /\ current_vertical_token_index = 0
  /\ pc = [r \in Tasks |-> "idle"]
  /\ req = [r \in Tasks |-> NoRequest]
  /\ out = [r \in Tasks |-> << >>]
  /\ calls = [r \in Tasks |-> NoCalls]
  /\ snap = [r \in Tasks |-> << >>]
  /\ alone = [r \in Tasks |-> FALSE]
  /\ arrived = 0
  /\ cache_lock = None
  /\ token_rotation_lock = None
  /\ issued = << >>
  /\ session_credential = {}

\* no body is being read
NoBody ==
  /\ wire = << >>
  /\ fed = 0
  /\ buffer = << >>
  /\ yielded = << >>
  /\ client_pc = "idle"
  /\ wants_reasoning = FALSE

Init == InitGateway /\ NoBody

\* a cache change made by request r ends the solitude of the others
Disturb(r, changed) ==
  /\ alone' = [q \in Tasks |-> IF q # r /\ changed THEN FALSE ELSE alone[q]]
  /\ snap' = [q \in Tasks |-> IF q # r /\ changed THEN << >> ELSE snap[q]]

\* A request that is over leaves before any other request moves: leaving
\* touches nothing shared, so no interleaving of cache operations is lost.
NoneLeaving == \A q \in Tasks : pc[q] \notin {"closed", "rejected", "cancelled"}

\* ----------------------------------------------------------------- actions
\* "with lock:" can be entered by a request when no request holds the lock
CanEnter(lock) == lock = None

\* a matcher block that awaits the session creation before it is left
cache_lock_exit_across_await(r) == r

\* cache_lock when request r leaves a "with cache_lock:" block and goes on to
\* its next suspension point
cache_lock_exit(r) == None

\* token_rotation_lock when request r leaves get_next_vertical_auth_token
token_rotation_lock_exit(r) == None

\* get_next_vertical_auth_token: the credential returned (the pool is a
\* Python list, indexed from 0)
get_next_vertical_auth_token ==
  VERTICAL_AUTH_TOKENS[current_vertical_token_index + 1]

\* a rotation that never advances
NextTokenIndex_stuck ==
  current_vertical_token_index

\* (current_vertical_token_index + 1) % len(VERTICAL_AUTH_TOKENS)
NextTokenIndex ==
  (current_vertical_token_index + 1) % Len(VERTICAL_AUTH_TOKENS)

\* the calls of get_next_vertical_auth_token so far, by what they returned:
\* the latest len(VERTICAL_AUTH_TOKENS) of them, oldest first
Issue(log, token) ==
  LET all == Append(log, token)
  IN  IF Len(all) > Len(VERTICAL_AUTH_TOKENS) THEN Tail(all) ELSE all

\* the credential each cached session was created with: pairs of cache key
\* and credential, for the keys of cache c, a new key being credited to the
\* request that inserted it
Credit(known, c, token) ==
  {p \in known : p[1] \in CacheIds(c)}
  \cup {<<id, token>> : id \in CacheIds(c) \ {p[1] : p \in known}}

\* chat_completions is refused before the matcher runs: 404 for an unknown
\* model (no credential is taken), 400 when there is no user message
Reject(r, msgs, model) ==
  /\ pc[r] = "idle"
  /\ NoneLeaving
  /\ \A q \in Tasks : q < r => pc[q] # "idle"
  /\ \/ /\ get_model_item(model) = NoModel
        /\ UNCHANGED <<current_vertical_token_index, token_rotation_lock,
                       issued>>
     \/ /\ get_model_item(model) # NoModel
        /\ latest_user_message_content(msgs) = << >>
        /\ CanEnter(token_rotation_lock)
        /\ current_vertical_token_index' = NextTokenIndex
        /\ issued' = Issue(issued, get_next_vertical_auth_token)
        /\ token_rotation_lock' = token_rotation_lock_exit(r)
  /\ pc' = [pc EXCEPT ![r] = "rejected"]
  /\ UNCHANGED <<cache, clock, VERTICAL_AUTH_TOKENS, req, out, calls, snap,
                 alone, arrived>>
  /\ UNCHANGED cache_lock
  /\ UNCHANGED framing_vars
  /\ UNCHANGED session_credential

\* chat_completions from the arrival of the request to its first suspension:
\* model lookup, credential, message extraction, the matcher under cache_lock
chat_completions(r, msgs, model, limit) ==
  /\ pc[r] = "idle"
  /\ NoneLeaving
  /\ \A q \in Tasks : q < r => pc[q] # "idle"
  /\ arrived < limit
  /\ get_model_item(model) # NoModel
  /\ latest_user_message_content(msgs) # << >>
  /\ CanEnter(token_rotation_lock)
  /\ CanEnter(cache_lock)
  /\ LET model_config == get_model_item(model)
         base == [NoRequest EXCEPT !.serial = arrived + 1,
                                   !.messages = msgs, !.model = model,
                                   !.auth_token = get_next_vertical_auth_token,
                                   !.url = model_config.vertical_model_url,
                                   !.reasoning = model_config.output_reasoning_flag,
                                   !.prefix = prefix_message_fingerprints(msgs)]
         i == FindMatch(cache, model_config.vertical_model_url,
                        system_prompt_hash(msgs), base.prefix)
     IN
     /\ arrived' = arrived + 1
     /\ current_vertical_token_index' = NextTokenIndex
     /\ issued' = Issue(issued, get_next_vertical_auth_token)
     /\ IF i # 0 /\ cache[i].vertical_chat_id # None
        THEN \* reuse the cached session
             /\ cache' = move_to_end(cache, i)
             /\ req' = [req EXCEPT ![r] =
                          [base EXCEPT !.matched = cache[i].id,
                                       !.chat = cache[i].vertical_chat_id,
                                       !.text = latest_user_message_content(msgs)]]
             /\ pc' = [pc EXCEPT ![r] = "sending"]
        ELSE \* new conversation: await get_chat_id
             /\ req' = [req EXCEPT ![r] = [base EXCEPT !.is_new = TRUE]]
             /\ pc' = [pc EXCEPT ![r] = "creating"]
             /\ UNCHANGED cache
     /\ alone' = [q \in Tasks |->
                    IF q = r THEN TRUE
                    ELSE IF cache' # cache THEN FALSE ELSE alone[q]]
     /\ snap' = [q \in Tasks |->
                    IF q = r THEN cache
                    ELSE IF cache' # cache THEN << >> ELSE snap[q]]
  /\ UNCHANGED <<clock, VERTICAL_AUTH_TOKENS, out, calls>>
  /\ token_rotation_lock' = token_rotation_lock_exit(r)
  /\ cache_lock' = cache_lock_exit(r)
  /\ UNCHANGED framing_vars
  /\ UNCHANGED session_credential

\* get_chat_id answered with a session id (a fresh one)
CreateSessionOk(r) ==
  /\ pc[r] = "creating"
  /\ NoneLeaving
  /\ calls' = [calls EXCEPT ![r].create = @ + 1]
  /\ req' = [req EXCEPT ![r].chat = req[r].serial,
                        ![r].text = NewConversationText(req[r].messages)]
  /\ pc' = [pc EXCEPT ![r] = "sending"]
  /\ UNCHANGED <<cache, clock, VERTICAL_AUTH_TOKENS,
                 current_vertical_token_index, out, snap, alone, arrived>>
  /\ UNCHANGED locks
  /\ UNCHANGED framing_vars
  /\ UNCHANGED history_vars

\* a failed session creation after which the request goes on to send
CreateSessionFail_sends_anyway(r) ==
  /\ pc[r] = "creating"
  /\ NoneLeaving
  /\ calls' = [calls EXCEPT ![r].create = @ + 1]
  /\ pc' = [pc EXCEPT ![r] = "sending"]
  /\ UNCHANGED <<cache, clock, VERTICAL_AUTH_TOKENS,
                 current_vertical_token_index, req, out, snap, alone, arrived>>
  /\ UNCHANGED locks
  /\ UNCHANGED framing_vars
  /\ UNCHANGED history_vars

\* get_chat_id answered None: HTTP 500, nothing is sent
CreateSessionFail(r) ==
  /\ pc[r] = "creating"
  /\ NoneLeaving
  /\ calls' = [calls EXCEPT ![r].create = @ + 1]
  /\ pc' = [pc EXCEPT ![r] = "rejected"]
  /\ UNCHANGED <<cache, clock, VERTICAL_AUTH_TOKENS,
                 current_vertical_token_index, req, out, snap, alone, arrived>>
  /\ UNCHANGED locks
  /\ UNCHANGED framing_vars
  /\ UNCHANGED history_vars

\* a request whose reasoning flag is passed as set whatever the model says
Stream_reasoning_always(r, body) ==
  /\ pc[r] = "sending"
  /\ NoneLeaving
  /\ calls' = [calls EXCEPT ![r].send = @ + 1]
  /\ LET a == AdapterLoop(AdapterStart, send_message_stream(body, TRUE), TRUE)
     IN  /\ out' = [out EXCEPT ![r] = a.out]
         /\ req' = [req EXCEPT ![r].parts = a.parts, ![r].status = body.status,
                               ![r].lines = body.lines]
         /\ pc' = [pc EXCEPT ![r] =
                     IF a.at = "returned" THEN "closed" ELSE "finishing"]
  /\ UNCHANGED <<cache, clock, VERTICAL_AUTH_TOKENS,
                 current_vertical_token_index, snap, alone, arrived>>
  /\ UNCHANGED locks
  /\ UNCHANGED framing_vars
  /\ UNCHANGED history_vars

\* the POST of send_message_stream is answered with body and the adapter
\* consumes the lines the client yields, up to the chunk with finish_reason
\* (or to the end marker after an error line).  The steps of one stream
\* touch only that request's locals, so they are taken as one step.
Stream(r, body) ==
  /\ pc[r] = "sending"
  /\ NoneLeaving
  /\ calls' = [calls EXCEPT ![r].send = @ + 1]
  /\ LET a == AdapterLoop(AdapterStart,
                          send_message_stream(body, req[r].reasoning),
                          req[r].reasoning)
     IN  /\ out' = [out EXCEPT ![r] = a.out]
         /\ req' = [req EXCEPT ![r].parts = a.parts, ![r].status = body.status,
                               ![r].lines = body.lines]
         /\ pc' = [pc EXCEPT ![r] =
                     IF a.at = "returned" THEN "closed" ELSE "finishing"]
  /\ UNCHANGED <<cache, clock, VERTICAL_AUTH_TOKENS,
                 current_vertical_token_index, snap, alone, arrived>>
  /\ UNCHANGED locks
  /\ UNCHANGED framing_vars
  /\ UNCHANGED history_vars

\* an adapter whose except block yields the error chunk and no end marker
Finish_no_end_marker_on_failure(r) ==
  /\ pc[r] = "finishing"
  /\ NoneLeaving
  /\ CanEnter(cache_lock)
  /\ IF req[r].is_new
     THEN /\ cache' = InsertNew(cache, req[r].serial, req[r].chat, req[r].url,
                                system_prompt_hash(req[r].messages),
                                req[r].messages, JoinNL(req[r].parts), clock)
          /\ clock' = clock + 1
          /\ out' = [out EXCEPT ![r] = Append(@, DONE)]
     ELSE IF req[r].matched \in CacheIds(cache)
     THEN /\ cache' = UpdateMatched(cache, req[r].matched, req[r].messages,
                                    JoinNL(req[r].parts), clock)
          /\ clock' = clock + 1
          /\ out' = [out EXCEPT ![r] = Append(@, DONE)]
     ELSE /\ out' = [out EXCEPT ![r] =
                       Append(@, ErrorChunk("internal-error-prefix: ",
                                            <<"KeyError">>))]
          /\ UNCHANGED <<cache, clock>>
  /\ pc' = [pc EXCEPT ![r] = "closed"]
  /\ Disturb(r, cache' # cache)
  /\ UNCHANGED <<VERTICAL_AUTH_TOKENS, current_vertical_token_index, req,
                 calls, arrived>>
  /\ cache_lock' = cache_lock_exit(r)
  /\ UNCHANGED token_rotation_lock
  /\ UNCHANGED framing_vars
  /\ session_credential' = Credit(session_credential, cache', req[r].auth_token)
  /\ UNCHANGED issued

\* the adapter resumes after the loop: _update_conversation_cache, then the
\* end marker; a KeyError of the update is caught by the adapter's except
Finish(r) ==
  /\ pc[r] = "finishing"
  /\ NoneLeaving
  /\ CanEnter(cache_lock)
  /\ LET full_assistant_reply == JoinNL(req[r].parts) IN
     IF req[r].is_new
     THEN /\ cache' = InsertNew(cache, req[r].serial, req[r].chat, req[r].url,
                                system_prompt_hash(req[r].messages),
                                req[r].messages, full_assistant_reply, clock)
          /\ clock' = clock + 1
          /\ out' = [out EXCEPT ![r] = Append(@, DONE)]
     ELSE IF req[r].matched \in CacheIds(cache)
     THEN /\ cache' = UpdateMatched(cache, req[r].matched, req[r].messages,
                                    full_assistant_reply, clock)
          /\ clock' = clock + 1
          /\ out' = [out EXCEPT ![r] = Append(@, DONE)]
     ELSE \* conversation_cache[matched_conv_id] raises KeyError
          /\ out' = [out EXCEPT ![r] =
                       @ \o <<ErrorChunk("internal-error-prefix: ",
                                         <<"KeyError">>), DONE>>]
          /\ UNCHANGED <<cache, clock>>
  /\ pc' = [pc EXCEPT ![r] = "closed"]
  /\ Disturb(r, cache' # cache)
  /\ UNCHANGED <<VERTICAL_AUTH_TOKENS, current_vertical_token_index, req,
                 calls, arrived>>
  /\ cache_lock' = cache_lock_exit(r)
  /\ UNCHANGED token_rotation_lock
  /\ UNCHANGED framing_vars
  /\ session_credential' = Credit(session_credential, cache', req[r].auth_token)
  /\ UNCHANGED issued

\* the request is over and its task ends: the locals are dropped
Retire(r) ==
  /\ pc[r] \in {"closed", "rejected", "cancelled"}
  /\ pc' = [pc EXCEPT ![r] = "idle"]
  /\ req' = [req EXCEPT ![r] = NoRequest]
  /\ out' = [out EXCEPT ![r] = << >>]
  /\ calls' = [calls EXCEPT ![r] = NoCalls]
  /\ snap' = [snap EXCEPT ![r] = << >>]
  /\ alone' = [alone EXCEPT ![r] = FALSE]
  /\ UNCHANGED <<cache, clock, VERTICAL_AUTH_TOKENS,
                 current_vertical_token_index, arrived>>
  /\ UNCHANGED locks
  /\ UNCHANGED framing_vars
  /\ UNCHANGED history_vars

RECURSIVE AdapterAfter(_, _, _)
\* the adapter after the first k lines the client yields, still in its loop
\* unless one of them ended it
AdapterAfter(lines, k, reasoning_requested) ==
  IF k = 0 THEN AdapterStart
  ELSE LET a == AdapterAfter(lines, k - 1, reasoning_requested)
       IN  IF a.at # "loop" THEN a
           ELSE AdapterStep(a, lines[k], reasoning_requested)

\* The caller disconnects while the adapter is inside its loop, suspended at
\* the yield of a chunk or at the read of the next line: the generator is
\* closed there (GeneratorExit and CancelledError are no Exception, so the
\* except block is not entered) and nothing after the loop runs.
CancelMidStream(r, body) ==
  /\ pc[r] = "sending"
  /\ NoneLeaving
  /\ \E k \in 0..Len(send_message_stream(body, req[r].reasoning)) :
       LET lines == send_message_stream(body, req[r].reasoning)
           a == AdapterAfter(lines, k, req[r].reasoning)
       IN  /\ k < Len(lines)
           /\ a.at = "loop"
           /\ out' = [out EXCEPT ![r] = a.out]
           /\ req' = [req EXCEPT ![r].parts = a.parts,
                                 ![r].status = body.status,
                                 ![r].lines = body.lines]
  /\ calls' = [calls EXCEPT ![r].send = @ + 1]
  /\ pc' = [pc EXCEPT ![r] = "cancelled"]
  /\ UNCHANGED <<cache, clock, VERTICAL_AUTH_TOKENS,
                 current_vertical_token_index, snap, alone, arrived>>
  /\ UNCHANGED locks
  /\ UNCHANGED framing_vars
  /\ UNCHANGED history_vars

\* a generator closed at the final chunk that still runs the cache update,
\* as a "finally" around the loop would
CancelAtFinalChunk_finally(r) ==
  /\ pc[r] = "finishing"
  /\ NoneLeaving
  /\ cache' = IF req[r].is_new
              THEN InsertNew(cache, req[r].serial, req[r].chat, req[r].url,
                             system_prompt_hash(req[r].messages),
                             req[r].messages, JoinNL(req[r].parts), clock)
              ELSE IF req[r].matched \in CacheIds(cache)
              THEN UpdateMatched(cache, req[r].matched, req[r].messages,
                                 JoinNL(req[r].parts), clock)
              ELSE cache
  /\ pc' = [pc EXCEPT ![r] = "cancelled"]
  /\ Disturb(r, cache' # cache)
  /\ UNCHANGED <<clock, VERTICAL_AUTH_TOKENS, current_vertical_token_index,
                 req, out, calls, arrived>>
  /\ UNCHANGED locks
  /\ UNCHANGED framing_vars
  /\ session_credential' = Credit(session_credential, cache', req[r].auth_token)
  /\ UNCHANGED issued

\* The caller disconnects while the adapter is suspended at the yield of the
\* chunk with finish_reason: the generator is closed before "break", so the
\* cache update and the end marker are never reached.
CancelAtFinalChunk(r) ==
  /\ pc[r] = "finishing"
  /\ NoneLeaving
  /\ pc' = [pc EXCEPT ![r] = "cancelled"]
  /\ UNCHANGED <<cache, clock, VERTICAL_AUTH_TOKENS,
                 current_vertical_token_index, req, out, calls, snap, alone,
                 arrived>>
  /\ UNCHANGED locks
  /\ UNCHANGED framing_vars
  /\ UNCHANGED history_vars

\* the caller disconnects before the adapter has passed the final chunk
Cancel(r, bodies) ==
  \/ \E body \in bodies : CancelMidStream(r, body)
  \/ CancelAtFinalChunk(r)

\* the steps of a request once it is accepted
Serve(r, bodies) ==
  \/ CreateSessionOk(r)
  \/ CreateSessionFail(r)
  \/ \E body \in bodies : Stream(r, body)
  \/ Finish(r)
  \/ Retire(r)

\* the cache under interleaved requests
Next ==
  \E r \in Tasks :
    \/ \E c \in CacheClients : chat_completions(r, c.messages, c.model, MaxRequests)
    \/ Serve(r, PlainBodies)

Spec == Init /\ [][Next]_vars

\* the matcher and the session decision, over every kind of request
NextMatch ==
  \E r \in Tasks :
    \/ \E c \in MatchClients : Reject(r, c.messages, c.model)
    \/ \E c \in MatchClients :
         chat_completions(r, c.messages, c.model, MatchRequests)
    \/ Serve(r, PlainBodies)

SpecMatch == Init /\ [][NextMatch]_vars

\* the adapter and the aggregator, over every kind of upstream answer
NextStream ==
  \E r \in Tasks :
    \/ \E c \in StreamClients :
         chat_completions(r, c.messages, c.model, StreamRequests)
    \/ Serve(r, AllBodies)
    \/ Cancel(r, AllBodies)

SpecStream == Init /\ [][NextStream]_vars

\* the clients of SpecReasoning: one model with the reasoning flag, one
\* without
ReasoningClients == {Opening, OtherEndpoint}

\* every kind of upstream answer, for models with and without reasoning
NextReasoning ==
  \E r \in Tasks :
    \/ \E c \in ReasoningClients :
         chat_completions(r, c.messages, c.model, StreamRequests)
    \/ Serve(r, AllBodies)

SpecReasoning == Init /\ [][NextReasoning]_vars

\* the lines of vertical.txt
TokenNames == <<"token-1", "token-2", "token-3", "token-4">>

\* the pools startup() can load: the first n lines, n from 1 to MaxTokens
Pools == {SubSeq(TokenNames, 1, n) : n \in 1..MaxTokens}

\* the state after startup(), with any of the pools
InitTokens ==
  /\ cache = << >>
  /\ clock = 1
  /\ VERTICAL_AUTH_TOKENS \in Pools
  /\ current_vertical_token_index = 0
  /\ pc = [r \in Tasks |-> "idle"]
  /\ req = [r \in Tasks |-> NoRequest]
  /\ out = [r \in Tasks |-> << >>]
  /\ calls = [r \in Tasks |-> NoCalls]
  /\ snap = [r \in Tasks |-> << >>]
  /\ alone = [r \in Tasks |-> FALSE]
  /\ arrived = 0
  /\ cache_lock = None
  /\ token_rotation_lock = None
  /\ issued = << >>
  /\ session_credential = {}
  /\ NoBody

\* the clients of SpecTokens
TokenClients == {Opening, FollowUp, NoUser, UnknownModel}

\* the credential rotation under interleaved requests, accepted and refused
NextTokens ==
  \E r \in Tasks :
    \/ \E c \in TokenClients : Reject(r, c.messages, c.model)
    \/ \E c \in TokenClients :
         chat_completions(r, c.messages, c.model, StreamRequests)
    \/ Serve(r, PlainBodies)

SpecTokens == InitTokens /\ [][NextTokens]_vars


\* more than one kind of line
NextPaths ==
  \E r \in Tasks :
    \/ \E c \in StreamClients :
         chat_completions(r, c.messages, c.model, MaxRequests)
    \/ Serve(r, PathBodies)

SpecPaths == Init /\ [][NextPaths]_vars

\* one chunk of the body arrives and every complete line in the buffer is
\* classified; a d: line ends the generator
ReadChunk ==
  /\ client_pc = "reading"
  /\ fed < Len(wire)
  /\ LET st == FeedChunk([buffer |-> buffer, yielded |-> yielded,
                          returned |-> FALSE],
                         wire[fed + 1], wants_reasoning)
     IN  /\ buffer' = st.buffer
         /\ yielded' = st.yielded
         /\ client_pc' = IF st.returned THEN "returned" ELSE "reading"
  /\ fed' = fed + 1
  /\ UNCHANGED <<wire, wants_reasoning>>
  /\ UNCHANGED gateway_vars

\* aiter_bytes is exhausted: the client yields the done line
BodyEnds ==
  /\ client_pc = "reading"
  /\ fed = Len(wire)
  /\ yielded' = Append(yielded, DoneLine)
  /\ client_pc' = "returned"
  /\ UNCHANGED <<wire, fed, buffer, wants_reasoning>>
  /\ UNCHANGED gateway_vars

\* the transport raises while the body is read: the except block yields the
\* error line
BodyRaises ==
  /\ client_pc = "reading"
  /\ fed < Len(wire)
  /\ yielded' = Append(yielded, ErrorLine)
  /\ client_pc' = "raised"
  /\ UNCHANGED <<wire, fed, buffer, wants_reasoning>>
  /\ UNCHANGED gateway_vars

\* a 200 answer whose body is one of the byte streams, cut into chunks
InitFraming ==
  /\ InitGateway
  /\ \E bs \in ByteStreams : wire \in Chunkings(bs)
  /\ fed = 0
  /\ buffer = << >>
  /\ yielded = << >>
  /\ client_pc = "reading"
  /\ wants_reasoning \in BOOLEAN

NextFraming == ReadChunk \/ BodyEnds \/ BodyRaises

\* send_message_stream reading one body
SpecFraming == InitFraming /\ [][NextFraming]_vars

\* ------------------------------------------------------------------ claims
\* C1: outside the cache lock the cache never holds more than
\* CONVERSATION_CACHE_MAX_SIZE records, and a put that meets a full cache
\* evicts exactly one record in the same step (the size stays at the bound).
C1_CacheBounded ==
  /\ [](Len(cache) <= CONVERSATION_CACHE_MAX_SIZE)
  /\ [][ (CacheIds(cache') \ CacheIds(cache) # {}
          /\ Len(cache) = CONVERSATION_CACHE_MAX_SIZE)
        => /\ Len(cache') = CONVERSATION_CACHE_MAX_SIZE
           /\ Cardinality(CacheIds(cache) \ CacheIds(cache')) = 1 ]_vars

\* a full cache has just taken a new record and dropped an old one
C1_Witness ==
  /\ Len(cache) = CONVERSATION_CACHE_MAX_SIZE
  /\ \E i \in DOMAIN cache : cache[i].id > CONVERSATION_CACHE_MAX_SIZE

\* C2: whenever an insertion evicts a record, the evicted record has the
\* oldest last_seen of the records in the cache.
C2_EvictsOldestLastSeen ==
  [][ \A i \in DOMAIN cache :
        cache[i].id \notin CacheIds(cache')
        => \A j \in DOMAIN cache : cache[i].last_seen <= cache[j].last_seen ]_vars

\* the chunks of a stream that carry finish_reason
TerminalEvents(chunks) == {i \in DOMAIN chunks : chunks[i].finish = "stop"}

\* C3: a stream consumed to completion holds exactly one terminal event (a
\* chunk with finish_reason), whatever the upstream sent and whatever other
\* requests did to the cache meanwhile.
C3_OneTerminalEvent ==
  \A r \in Tasks :
    pc[r] = "closed" => Cardinality(TerminalEvents(out[r])) = 1

\* request q is the history of record rec followed by the assistant reply
\* the record holds last and a new user message, for the same endpoint and
\* system prompt
IsContinuationOf(q, rec) ==
  /\ Len(q.messages) >= 2
  /\ Last(q.messages).role = "user"
  /\ q.messages[Len(q.messages) - 1].role = "assistant"
  /\ Fingerprints(Front(q.messages)) = rec.message_fingerprints
  /\ q.url = rec.vertical_model_url
  /\ system_prompt_hash(q.messages) = rec.system_prompt_hash

\* request r is accepted in this step
Arrives(r) == pc[r] = "idle" /\ pc'[r] \in {"creating", "sending"}

\* C4: a request that continues a cached conversation (its history, the
\* reply, a new user message) is matched to that record: no new session, the
\* stored session id, and only the new user message as the text to send.
C4_ContinuationReuse ==
  [][ \A r \in Tasks : \A i \in DOMAIN cache :
        (Arrives(r) /\ IsContinuationOf(req'[r], cache[i]))
        => /\ req'[r].matched = cache[i].id
           /\ ~req'[r].is_new
           /\ req'[r].chat = cache[i].vertical_chat_id
           /\ req'[r].text = Last(req'[r].messages).content ]_vars

\* the stream of request r ended on the done path: final chunk, end marker
DonePath(r) ==
  /\ pc[r] = "closed"
  /\ Len(out[r]) >= 2
  /\ out[r][Len(out[r]) - 1] = FinalChunk
  /\ Last(out[r]) = DONE

\* the cache entries request r inserted
InsertedBy(r) == {i \in DOMAIN cache : cache[i].id = req[r].serial}

\* number of user and assistant messages
TurnCount(msgs) ==
  Cardinality({k \in DOMAIN msgs : msgs[k].role \in {"user", "assistant"}})

IsThinking(part) == part # << >> /\ Head(part) = "[Thinking]: "
IsContent(part) == ~IsThinking(part)

\* C5 as stated: after an unmatched request completes with a done signal,
\* exactly one new record exists, with one fingerprint per user/assistant
\* turn exchanged (none for system messages), so length 2 for [system, user];
\* the aggregated content is the upstream content and there is one "stop".
C5_OneFingerprintPerTurn ==
  \A r \in Tasks :
    (DonePath(r) /\ req[r].is_new)
    => /\ Cardinality(InsertedBy(r)) = 1
       /\ \A i \in InsertedBy(r) :
            Len(cache[i].message_fingerprints) = TurnCount(req[r].messages) + 1
       /\ Cardinality(TerminalEvents(out[r])) = 1

\* C5 amended: the new record holds one fingerprint per request message,
\* system messages included and in request order, then the fingerprint of
\* the assistant reply (length 3 for [system, user]); the aggregated content
\* of a reply without reasoning is the upstream content, with one "stop".
C5_OneFingerprintPerMessage ==
  \A r \in Tasks :
    (DonePath(r) /\ req[r].is_new)
    => /\ Cardinality(InsertedBy(r)) = 1
       /\ \A i \in InsertedBy(r) :
            LET fps == cache[i].message_fingerprints
                msgs == req[r].messages
            IN  /\ Len(fps) = Len(msgs) + 1
                /\ \A k \in DOMAIN msgs : fps[k][1] = msgs[k].role
                /\ Last(fps)[1] = "assistant"
                /\ (req[r].messages = Opening.messages => Len(fps) = 3)
       /\ Cardinality(TerminalEvents(out[r])) = 1
       /\ (\A k \in DOMAIN req[r].parts : IsContent(req[r].parts[k]))
          => aggregate_stream_for_non_stream_response(out[r])
             = Flatten(req[r].parts)

\* [system, user] answered "x": a record of three fingerprints, content "x"
C5_Witness ==
  \E r \in Tasks :
    /\ DonePath(r) /\ req[r].is_new
    /\ req[r].messages = Opening.messages
    /\ aggregate_stream_for_non_stream_response(out[r]) = <<"x">>
    /\ \E i \in InsertedBy(r) : Len(cache[i].message_fingerprints) = 3

\* a record is compatible with a request: same endpoint, same signature, and
\* the record's fingerprints but the last are those of the request's
\* messages but the last
C6_Agrees(rec, q) ==
  /\ rec.vertical_model_url = q.url
  /\ rec.system_prompt_hash = system_prompt_hash(q.messages)
  /\ Len(rec.message_fingerprints) = Len(q.messages)
  /\ \A k \in 1..(Len(q.messages) - 1) :
       rec.message_fingerprints[k]
         = generate_message_fingerprint(q.messages[k].role, q.messages[k].content)

Greatest(K) == CHOOSE i \in K : \A j \in K : j <= i

\* C6: the matcher returns the most recently used record that agrees with
\* the request in endpoint, signature and every prior-turn fingerprint, and
\* no record when every cached record deviates in one of them.
C6_PrefixExactMatch ==
  [][ \A r \in Tasks :
        Arrives(r)
        => LET K == {i \in DOMAIN cache : C6_Agrees(cache[i], req'[r])}
           IN  IF K = {}
               THEN req'[r].matched = None /\ req'[r].is_new
               ELSE /\ req'[r].matched = cache[Greatest(K)].id
                    /\ ~req'[r].is_new ]_vars

\* a request was matched to the more recent of two compatible records, and
\* another cached record deviates from a request in flight
C6_Witness ==
  \E r \in Tasks :
    /\ pc[r] = "sending"
    /\ req[r].matched # None
    /\ Len(cache) = 2
    /\ \A i \in DOMAIN cache : C6_Agrees(cache[i], req[r])
    /\ Last(cache).id = req[r].matched

\* the POST of request r was answered with a status other than 200, and no
\* other request changed the cache while r was served
FailedAlone(r) ==
  /\ pc[r] = "closed"
  /\ req[r].status \notin {"", "200"}
  /\ alone[r]

\* exactly one chunk (assistant role, content, finish_reason), then [DONE]
OneErrorChunk(chunks) ==
  /\ Len(chunks) = 2
  /\ chunks[1].role /\ chunks[1].channel = "content"
  /\ chunks[1].text # << >> /\ chunks[1].finish = "stop"
  /\ chunks[2] = DONE

\* C7 as stated: after a non-success status the stream is one error chunk
\* and the end marker, and the cache is as it was when the request arrived
\* (nothing added, changed, removed or reordered).
C7_CacheUntouched ==
  \A r \in Tasks :
    FailedAlone(r) => (OneErrorChunk(out[r]) /\ cache = snap[r])

\* cache c after move_to_end of the entry with key id (c itself without it)
Touched(c, id) ==
  SelectSeq(c, LAMBDA e : e.id # id) \o SelectSeq(c, LAMBDA e : e.id = id)

\* C7 amended: after a non-success status the stream is one error chunk and
\* the end marker; no record is added, changed or removed, and the only
\* reordering is the matcher's touch: a matched record is most recently used.
C7_OnlyTouched ==
  \A r \in Tasks :
    FailedAlone(r)
    => /\ OneErrorChunk(out[r])
       /\ cache = Touched(snap[r], req[r].matched)

\* a failed request had matched a record that was not the most recent one
C7_Witness ==
  \E r \in Tasks :
    /\ FailedAlone(r)
    /\ req[r].matched # None
    /\ cache # snap[r]

\* no "error:" line reached the adapter of request r
NoErrorLine(r) ==
  \A k \in DOMAIN out[r] :
    out[r][k].text = << >> \/ Head(out[r][k].text) # "error-prefix: "

\* C9: the aggregated content is every reasoning fragment behind
\* "[Thinking]: ", in arrival order, then every content fragment in arrival
\* order, for every stream of reasoning and content lines.
C9_AggregatedContent ==
  \A r \in Tasks :
    (pc[r] = "closed" /\ NoErrorLine(r))
    => aggregate_stream_for_non_stream_response(out[r])
       = Flatten(SelectSeq(req[r].parts, IsThinking)
                 \o SelectSeq(req[r].parts, IsContent))

WholeBody == Flatten(wire)

\* C8: however the body is cut into chunks, inside a line or inside a
\* multi-byte character, the lines the client yields are the lines it
\* yields when the whole body arrives as one chunk.
C8_FramingRoundTrip ==
  client_pc = "returned" => yielded = SingleChunk(WholeBody, wants_reasoning)

\* the role-labelled history of a request, joined by line ends
C10_Labelled(msgs) ==
  LET turns == SelectSeq(msgs, LAMBDA m : m.role \in {"user", "assistant"})
  IN  JoinNL([k \in DOMAIN turns |->
                <<IF turns[k].role = "user" THEN "User: " ELSE "Assistant: ">>
                \o turns[k].content])

\* the content of the newest user message
C10_NewestUser(msgs) ==
  msgs[Greatest({k \in DOMAIN msgs : msgs[k].role = "user"})].content

\* C10: a matched request makes no session-creation call, uses the record's
\* session id and sends the newest user message only; an unmatched request
\* makes exactly one session-creation call and sends the role-labelled
\* history (the newest user message when that is empty).
C10_SessionDecision ==
  \A r \in Tasks :
    /\ calls[r].create <= 1
    /\ req[r].matched # None => (calls[r].create = 0 /\ ~req[r].is_new)
    /\ calls[r].send >= 1
       => IF req[r].matched # None
          THEN /\ req[r].text = C10_NewestUser(req[r].messages)
               /\ \A i \in DOMAIN cache :
                    cache[i].id = req[r].matched
                    => cache[i].vertical_chat_id = req[r].chat
          ELSE /\ calls[r].create = 1
               /\ req[r].chat = req[r].serial
               /\ req[r].text =
                    (IF C10_Labelled(req[r].messages) = << >>
                     THEN C10_NewestUser(req[r].messages)
                     ELSE C10_Labelled(req[r].messages))

\* a matched request and an unmatched one have both sent their text
C10_Witness ==
  \E r, q \in Tasks :
    /\ calls[r].send = 1 /\ req[r].matched # None
    /\ cache # << >> /\ Last(cache).id = req[r].matched
    /\ calls[q].send = 1 /\ req[q].is_new /\ Len(req[q].messages) > 2

\* the messages of a request but its newest user message
ExceptNewestUser(msgs) ==
  LET n == Greatest({k \in DOMAIN msgs : msgs[k].role = "user"})
  IN  SubSeq(msgs, 1, n - 1) \o SubSeq(msgs, n + 1, Len(msgs))

\* C12: the prior-turn fingerprints handed to the matcher are those of every
\* request message except the newest user message, also when the last
\* message of the request is not a user message.
C12_PriorTurnFingerprints ==
  \A r \in Tasks :
    pc[r] \in {"creating", "sending", "finishing", "closed"}
    => req[r].prefix = Fingerprints(ExceptNewestUser(req[r].messages))

RECURSIVE DeliveredUntilDone(_, _)
\* the texts of the content and reasoning lines of a body that precede its
\* first d: line with a done payload (reasoning behind "[Thinking]: ")
DeliveredUntilDone(lines, reasoning_requested) ==
  IF lines = << >> THEN << >>
  ELSE LET line == Head(lines)
           rest == DeliveredUntilDone(Tail(lines), reasoning_requested)
       IN  IF line.tag = "d:" /\ IsDoneEvent(line.seg) THEN << >>
           ELSE IF line.tag = "0:" /\ line.quoted
           THEN <<parse_json_string_content(line.seg)>> \o rest
           ELSE IF line.tag = "g:" /\ line.quoted /\ reasoning_requested
           THEN <<<<"[Thinking]: ">> \o parse_json_string_content(line.seg)>> \o rest
           ELSE rest

\* C13: only a d: line with a done payload ends the stream; a d: line with
\* another payload is dropped like e:, f: and 8: lines, and the content lines
\* after it are still delivered.
C13_OnlyDonePayloadEnds ==
  \A r \in Tasks :
    DonePath(r)
    => req[r].parts = DeliveredUntilDone(req[r].lines, req[r].reasoning)

RECURSIVE Deltas(_)
\* channel and text of the chunks without finish_reason, in emission order
Deltas(chunks) ==
  IF chunks = << >> THEN << >>
  ELSE (IF Head(chunks).finish = "null"
           /\ Head(chunks).channel \in {"content", "reasoning"}
        THEN << <<Head(chunks).channel, Head(chunks).text>> >>
        ELSE << >>)
       \o Deltas(Tail(chunks))

RECURSIVE DeltasOf(_, _)
\* channel and text of the content and reasoning lines of a body, in
\* arrival order
DeltasOf(lines, reasoning_requested) ==
  IF lines = << >> THEN << >>
  ELSE LET line == Head(lines)
           rest == DeltasOf(Tail(lines), reasoning_requested)
       IN  IF line.tag = "0:" /\ line.quoted
           THEN << <<"content", parse_json_string_content(line.seg)>> >> \o rest
           ELSE IF line.tag = "g:" /\ line.quoted /\ reasoning_requested
           THEN << <<"reasoning", parse_json_string_content(line.seg)>> >> \o rest
           ELSE rest

IsPrefix(s, t) == Len(s) <= Len(t) /\ SubSeq(t, 1, Len(s)) = s

EndMarkers(chunks) == {i \in DOMAIN chunks : chunks[i] = DONE}

\* C14: in a stream consumed to completion the content and reasoning chunks
\* come in the order of their lines, and the end marker is emitted exactly
\* once, as the last item, on the done path, the error-line path and the
\* internal-failure path.
C14_OrderAndEndMarker ==
  \A r \in Tasks :
    pc[r] = "closed"
    => /\ IsPrefix(Deltas(out[r]), DeltasOf(req[r].lines, req[r].reasoning))
       /\ EndMarkers(out[r]) = {Len(out[r])}

\* a stream of a reasoning chunk then a content chunk that ended on the
\* internal-failure path
C14_Witness ==
  \E r \in Tasks :
    /\ pc[r] = "closed"
    /\ Len(Deltas(out[r])) = 2
    /\ \E k \in DOMAIN out[r] :
         /\ out[r][k].text # << >>
         /\ Head(out[r][k].text) = "internal-error-prefix: "

\* the positions of the chunks a content or reasoning line produced
DeltaChunks(chunks) ==
  {k \in DOMAIN chunks : /\ chunks[k].finish = "null"
                         /\ chunks[k].channel \in {"content", "reasoning"}}

\* the decoded texts of the quoted lines of a body with the given tag
TextsOf(lines, tag) ==
  {parse_json_string_content(lines[k].seg) :
     k \in {j \in DOMAIN lines : lines[j].tag = tag /\ lines[j].quoted}}

\* C15: the first content or reasoning chunk of a stream carries the role
\* marker with its text, every later one carries its text without the role
\* marker, and the text of a reasoning line is never in the content channel.
C15_RoleMarkerOnFirstChunk ==
  \A r \in Tasks :
    LET D == DeltaChunks(out[r]) IN
    \A k \in D :
      /\ out[r][k].role <=> (\A j \in D : k <= j)
      /\ out[r][k].channel = "content"
         => out[r][k].text \in TextsOf(req[r].lines, "0:")
      /\ out[r][k].channel = "reasoning"
         => (req[r].reasoning /\ out[r][k].text \in TextsOf(req[r].lines, "g:"))

\* a reasoning chunk with the role marker, then a content chunk without it
C15_Witness ==
  \E r \in Tasks :
    /\ Len(out[r]) >= 2
    /\ out[r][1].channel = "reasoning" /\ out[r][1].role
    /\ out[r][2].channel = "content" /\ ~out[r][2].role
    /\ out[r][2].finish = "null"

\* request r completes its turn in this step
Completes(r) == pc[r] = "finishing" /\ pc'[r] = "closed"

\* C16: the update of a matched record after a turn is one step: the
\* record goes from its fingerprints to the same fingerprints followed by the
\* final user fingerprint (unless it is already last) and the reply's
\* fingerprint, with last_seen refreshed; no step takes fingerprints away, so
\* turns of requests matched to the same record are appended one after the
\* other and none is lost.
C16_UpdateAtomic ==
  [][ \A i \in DOMAIN cache : \A j \in DOMAIN cache' :
        cache[i].id = cache'[j].id
        => LET f == cache[i].message_fingerprints
               g == cache'[j].message_fingerprints
           IN  \/ cache'[j] = cache[i]
               \/ \E r \in Tasks :
                    LET u == generate_message_fingerprint(
                               Last(req[r].messages).role,
                               Last(req[r].messages).content)
                        a == generate_message_fingerprint(
                               "assistant", JoinNL(req[r].parts))
                    IN  /\ Completes(r)
                        /\ req[r].matched = cache[i].id
                        /\ g = f \o (IF Last(f) = u THEN << >> ELSE <<u>>) \o <<a>>
                        /\ cache'[j].last_seen = clock ]_vars

\* two requests in flight were matched to one record and each turn is there
C16_Witness ==
  \E i \in DOMAIN cache :
    /\ Len(cache[i].message_fingerprints) = 7
    /\ \A k \in {3, 5, 7} : cache[i].message_fingerprints[k][1] = "assistant"
    /\ \A k \in {4, 6} : cache[i].message_fingerprints[k][1] = "user"

\* request r is suspended at a network call or at a yield of its stream, or
\* was cancelled there
Suspended(r) == pc[r] \in {"creating", "sending", "finishing", "cancelled"}

\* C17: no request holds cache_lock or token_rotation_lock while it is
\* suspended at a network point, so while a request is suspended or
\* cancelled both locks can be entered by any other request.
C17_NoLockAcrossSuspension ==
  \A r \in Tasks :
    Suspended(r)
    => /\ cache_lock # r /\ token_rotation_lock # r
       /\ CanEnter(cache_lock) /\ CanEnter(token_rotation_lock)

\* one request cancelled in its stream while another waits for the upstream
C17_Witness ==
  \E r, q \in Tasks :
    /\ pc[r] = "cancelled" /\ out[r] # << >>
    /\ pc[q] \in {"creating", "sending"}

\* the keys of a cache, least recently used first
Ids(c) == [i \in DOMAIN c |-> c[i].id]

\* C18: a match makes the matched record the most recently used and changes
\* no record; an insertion puts the new record last and never evicts the
\* record that was most recently used before it (capacity at least 2); no
\* other step reorders the cache.
C18_TouchProtects ==
  [][ IF \E r \in Tasks : Arrives(r) /\ req'[r].matched # None
      THEN \A r \in Tasks :
             (Arrives(r) /\ req'[r].matched # None)
             => /\ cache' = Touched(cache, req'[r].matched)
                /\ Last(cache').id = req'[r].matched
      ELSE IF CacheIds(cache') \ CacheIds(cache) # {}
      THEN /\ Last(cache').id \notin CacheIds(cache)
           /\ (cache # << >> /\ CONVERSATION_CACHE_MAX_SIZE >= 2)
              => Last(cache).id \in CacheIds(cache')
      ELSE Ids(cache') = Ids(cache) ]_vars

\* the oldest record was matched while the cache was full and is still
\* cached after the next insertion, which evicted a younger record
C18_Witness ==
  /\ Len(cache) = 2
  /\ cache[1].last_seen = 1
  /\ cache[2].last_seen = 3
  /\ \E r \in Tasks : /\ pc[r] = "sending"
                      /\ req[r].matched = cache[1].id
                      /\ req[r].serial < cache[2].id

\* C19: every cached record has a non-empty fingerprint sequence whose
\* trailing entry is the fingerprint of an assistant reply: of the reply of
\* the turn that last inserted or updated the record.
C19_TrailingAssistantReply ==
  /\ [](\A i \in DOMAIN cache :
          /\ cache[i].message_fingerprints # << >>
          /\ Last(cache[i].message_fingerprints)[1] = "assistant")
  /\ [][ \A j \in DOMAIN cache' :
           (\A i \in DOMAIN cache : cache[i] # cache'[j])
           => \E r \in Tasks :
                /\ Completes(r)
                /\ cache'[j].id \in {req[r].serial, req[r].matched}
                /\ Last(cache'[j].message_fingerprints)
                     = generate_message_fingerprint("assistant",
                                                    JoinNL(req[r].parts)) ]_vars

\* a record that was inserted and then updated by a later turn
C19_Witness ==
  \E i \in DOMAIN cache :
    /\ Len(cache[i].message_fingerprints) = 5
    /\ cache[i].message_fingerprints[4][1] = "user"
    /\ cache[i].last_seen > cache[i].id

\* the session-creation call of request r failed
CreationFailed(r) ==
  req[r].is_new /\ calls[r].create >= 1 /\ req[r].chat = None

\* the send call of request r failed: the client yielded its error line
SendFailed(r) ==
  /\ pc[r] = "closed"
  /\ \E k \in DOMAIN out[r] :
       out[r][k].text # << >> /\ Head(out[r][k].text) = "error-prefix: "

\* at most one call of each kind, no send after a failed creation, and a
\* failed send ends the stream with one error chunk and the end marker
NoRetry(r) ==
  /\ calls[r].create <= 1
  /\ calls[r].send <= 1
  /\ CreationFailed(r) => (calls[r].send = 0 /\ out[r] = << >>)
  /\ SendFailed(r)
     => /\ Len(out[r]) >= 2
        /\ out[r][Len(out[r]) - 1].finish = "stop"
        /\ Last(out[r]) = DONE
        /\ Cardinality(TerminalEvents(out[r])) = 1

RecordOf(r) == IF req[r].is_new THEN req[r].serial ELSE req[r].matched

\* C21: the text whose fingerprint is stored as the assistant reply is the
\* text the non-streaming aggregation returns to the caller, for every
\* stream, also with several fragments and with reasoning and content
\* interleaved.
C21_ReplyIsAggregation ==
  [][ \A r \in Tasks :
        (Completes(r) /\ cache' # cache)
        => \E j \in DOMAIN cache' :
             /\ cache'[j].id = RecordOf(r)
             /\ Last(cache'[j].message_fingerprints)
                = generate_message_fingerprint(
                    "assistant",
                    aggregate_stream_for_non_stream_response(out'[r])) ]_vars


\* the lines of a body that are no g: lines
WithoutReasoning(lines) == SelectSeq(lines, LAMBDA l : l.tag # "g:")

\* C22: when reasoning was not requested for the model id, the g: lines of
\* the upstream produce no chunk, never show as a reasoning delta and do not
\* enter the reply parts: the chunks and the parts are those of the same
\* body without its g: lines, no chunk is on the reasoning channel and no
\* part carries the thinking prefix.
C22_ReasoningNotRequested ==
  \A r \in Tasks :
    (pc[r] \in {"finishing", "closed"} /\ req[r].status = "200"
     /\ ~get_model_item(req[r].model).output_reasoning_flag)
    => /\ \A k \in DOMAIN out[r] : out[r][k].channel # "reasoning"
       /\ \A k \in DOMAIN req[r].parts : ~IsThinking(req[r].parts[k])
       /\ \A k \in DOMAIN aggregate_stream_for_non_stream_response(out[r]) :
            aggregate_stream_for_non_stream_response(out[r])[k] # "[Thinking]: "
       /\ \E raises \in BOOLEAN :
            LET a == AdapterLoop(
                       AdapterStart,
                       send_message_stream(
                         Body("200", WithoutReasoning(req[r].lines), raises),
                         FALSE),
                       FALSE)
            IN  /\ IsPrefix(a.out, out[r])
                /\ req[r].parts = a.parts

\* a model without reasoning was answered a g: line next to a content line
C22_Witness ==
  \E r \in Tasks :
    /\ pc[r] = "finishing"
    /\ ~get_model_item(req[r].model).output_reasoning_flag
    /\ \E k \in DOMAIN req[r].lines : req[r].lines[k].tag = "g:"
    /\ \E k \in DOMAIN out[r] : out[r][k].channel = "content"


\* C23: each upstream session id is owned by at most one cache record
\* (session creation returning a fresh id on every call): no two records of
\* a reachable cache hold the same upstream session id.
C23_SessionOwnedByOneRecord ==
  \A i \in DOMAIN cache : \A j \in DOMAIN cache :
    cache[i].vertical_chat_id = cache[j].vertical_chat_id => i = j

\* two records, one of them extended by a request that reused its session
C23_Witness ==
  /\ Len(cache) = 2
  /\ \E i \in DOMAIN cache : Len(cache[i].message_fingerprints) >= 5
  /\ \E r \in Tasks : pc[r] = "closed" /\ req[r].matched # None


\* the credential after pool[i] in cyclic pool order
NextInPool(pool, token) ==
  LET i == CHOOSE k \in DOMAIN pool : pool[k] = token
  IN  pool[(i % Len(pool)) + 1]

\* C24: credential rotation is round-robin under a lock: with a fixed pool of
\* N credentials the rotation index stays in 0..N-1, successive calls return
\* the credentials in cyclic pool order starting with the first, and any N
\* consecutive calls, of whatever requests, return each credential exactly
\* once.
C24_RoundRobin ==
  LET pool == VERTICAL_AUTH_TOKENS
      N == Len(pool)
  IN  /\ current_vertical_token_index \in 0..(N - 1)
      /\ token_rotation_lock = None
      /\ Len(issued) < N => issued = SubSeq(pool, 1, Len(issued))
      /\ \A k \in 1..(Len(issued) - 1) :
           issued[k + 1] = NextInPool(pool, issued[k])
      /\ issued # << >>
         => NextInPool(pool, Last(issued))
            = pool[current_vertical_token_index + 1]
      /\ Len(issued) = N
         => \A i \in 1..N :
              Cardinality({k \in 1..N : issued[k] = pool[i]}) = 1
      /\ \A r \in Tasks :
           pc[r] \in {"creating", "sending", "finishing"}
           => \E i \in 1..N : req[r].auth_token = pool[i]

\* three credentials, the rotation has wrapped around, and the latest three
\* calls include those of two requests in flight together
C24_Witness ==
  /\ Len(VERTICAL_AUTH_TOKENS) = 3
  /\ Len(issued) = 3
  /\ issued[1] # VERTICAL_AUTH_TOKENS[1]
  /\ \A r \in Tasks : pc[r] \in {"creating", "sending"}
  /\ req[1].auth_token # req[2].auth_token


\* C25: frame of the record update: the update after a completed turn on a
\* matched record leaves that record's upstream session id, endpoint and
\* system-prompt signature unchanged, and leaves every other record and the
\* keys of the cache (and their order) unchanged; and in every step a
\* record's fingerprint sequence only grows by appending.
C25_UpdateFrame ==
  [][ /\ \A r \in Tasks :
           (Completes(r) /\ ~req[r].is_new /\ req[r].matched \in CacheIds(cache))
           => /\ Ids(cache') = Ids(cache)
              /\ \A i \in DOMAIN cache :
                   IF cache[i].id = req[r].matched
                   THEN /\ cache'[i].vertical_chat_id = cache[i].vertical_chat_id
                        /\ cache'[i].vertical_model_url = cache[i].vertical_model_url
                        /\ cache'[i].system_prompt_hash = cache[i].system_prompt_hash
                        /\ Len(cache'[i].message_fingerprints)
                           > Len(cache[i].message_fingerprints)
                   ELSE cache'[i] = cache[i]
      /\ \A i \in DOMAIN cache : \A j \in DOMAIN cache' :
           cache[i].id = cache'[j].id
           => IsPrefix(cache[i].message_fingerprints,
                       cache'[j].message_fingerprints) ]_vars

\* a turn on a matched record has just been recorded next to another record
C25_Witness ==
  \E r \in Tasks : \E i \in DOMAIN cache :
    /\ pc[r] = "closed"
    /\ Len(cache) = 2
    /\ cache[i].id = req[r].matched
    /\ cache[i].last_seen = clock - 1
    /\ Len(cache[i].message_fingerprints) >= 5
    /\ Last(out[r]) = DONE


\* request r has sent its message on a session it found in the cache
Reuses(r) ==
  /\ pc[r] \in {"finishing", "closed"}
  /\ calls[r].send = 1
  /\ req[r].matched # None

\* C26: a request that reuses a cached upstream session sends its message
\* with the credential that session was created with, for any pool size and
\* any interleaving of requests.
C26_ReuseSameCredential ==
  \A r \in Tasks :
    Reuses(r)
    => \A p \in session_credential :
         p[1] = req[r].matched => req[r].auth_token = p[2]

=============================================================================
